---- MODULE Spec2Model ----
(***************************************************************************)
(* A model of src/core/utils-core.js (class UtilsCore of gpu.js): the      *)
(* load-time capability probe, the canvas / WebGL helpers, the             *)
(* marker-based clone and the kernel-object validator.                     *)
(*                                                                         *)
(* JavaScript values are records [t |-> <typeof tag>, v |-> <payload>].    *)
(* JavaScript strings are sequences of one-character strings, so that      *)
(* toUpperCase, ToNumber and JSON.parse are computed, not tabulated.       *)
(***************************************************************************)
EXTENDS Integers, Sequences, FiniteSets, TLC

VARIABLES
    env,                    \* the host: document, its canvas element, the GPU's extensions
    pc,                     \* position in the module's top-level code (lines 303-312)
    isCanvasSupportedC,     \* const _isCanvasSupported            (line 303)
    testingWebGl,           \* const _testingWebGl                 (line 304)
    isWebGlSupportedC,      \* const _isWebGlSupported             (line 305)
    isDrawBuffersC,         \* const _isWebGlDrawBuffersSupported  (line 306)
    statics,                \* UtilsCore.OES_* static fields       (lines 308-310)
    call,                   \* the last call of a UtilsCore method and its outcome
    input,                  \* clone: the argument and the object graph it was called on
    heap,                   \* clone: the objects, each with its own properties in insertion order
    stack,                  \* clone: the active calls of UtilsCore.clone, innermost last
    cstate,                 \* clone: "idle", "running", "returned" or "thrown"
    result                  \* clone: the value returned or the error thrown

capVars == <<env, pc, isCanvasSupportedC, testingWebGl, isWebGlSupportedC,
             isDrawBuffersC, statics, call>>

cloneVars == <<input, heap, stack, cstate, result>>

vars == <<capVars, cloneVars>>

-----------------------------------------------------------------------------
(* JavaScript values *)

Null      == [t |-> "null",      v |-> "null"]
Undefined == [t |-> "undefined", v |-> "undefined"]
Uninit    == [t |-> "uninitialized", v |-> "tdz"]   \* a const before its declaration ran
Bool(b)   == [t |-> "boolean", v |-> b]
Num(n)    == [t |-> "number",  v |-> n]
NaN       == [t |-> "nan",     v |-> "NaN"]       \* the number NaN, kept apart from the integers
Str(s)    == [t |-> "string",  v |-> s]
Obj(f)    == [t |-> "object",  v |-> f]

\* ToBoolean
Truthy(x) ==
    CASE x.t = "null"      -> FALSE
      [] x.t = "undefined" -> FALSE
      [] x.t = "boolean"   -> x.v
      [] x.t = "number"    -> x.v # 0
      [] x.t = "nan"       -> FALSE
      [] x.t = "string"    -> x.v # <<>>
      [] OTHER             -> TRUE

\* a && b
AndAlso(a, b) == IF Truthy(a) THEN b ELSE a

\* a || b
OrElse(a, b) == IF Truthy(a) THEN a ELSE b

\* String.prototype.toUpperCase, one character
UpperChar(c) ==
    CASE c = "a" -> "A" [] c = "c" -> "C" [] c = "d" -> "D" [] c = "i" -> "I"
      [] c = "n" -> "N" [] c = "s" -> "S" [] c = "v" -> "V"
      [] OTHER   -> c

toUpperCase(s) == [i \in 1..Len(s) |-> UpperChar(s[i])]

\* outcomes of a call: a value returned or an error thrown, with the requests
\* made to the host on the way
Return(val, log) == [kind |-> "return", val |-> val, log |-> log]
Throw(err, log)  == [kind |-> "throw",  val |-> err, log |-> log]

TypeError       == [t |-> "TypeError", v |-> "property access on null or undefined"]
InvalidCanvas   == [t |-> "Error",     v |-> "Invalid canvas object - "]
ClassCallError  == [t |-> "TypeError", v |-> "Class constructor cannot be invoked without 'new'"]

-----------------------------------------------------------------------------
(* The host *)

CANVAS == <<"C", "A", "N", "V", "A", "S">>
canvasLower == <<"c", "a", "n", "v", "a", "s">>
DIV == <<"D", "I", "V">>

ExtNames == {"OES_texture_float", "OES_texture_float_linear",
             "OES_element_index_uint", "WEBGL_draw_buffers"}

\* a DOM-like object: nodeName is a JS value, getContext says whether the
\* method exists, exp / std whether the two context identifiers resolve
Element(nodeName, getContext, exp, std, w, h) ==
    Obj([nodeName |-> nodeName, getContext |-> getContext,
         exp |-> exp, std |-> std, width |-> w, height |-> h])

\* the element document.createElement('canvas') yields in this host
HostElements ==
    { Element(Str(n), g, e, s, 300, 150) :
        n \in {CANVAS, canvasLower}, g \in BOOLEAN, e \in BOOLEAN, s \in BOOLEAN }

Envs ==
    { [hasDocument |-> d, elem |-> el, exts |-> x] :
        d \in BOOLEAN, el \in HostElements, x \in SUBSET ExtNames }

\* hosts without a document have no element to tell apart
RealEnvs ==
    { e \in Envs :
        /\ ~e.hasDocument => e.elem = Element(Str(CANVAS), FALSE, FALSE, FALSE, 300, 150)
        /\ ~e.elem.v.getContext => ~e.elem.v.exp /\ ~e.elem.v.std }

ExtHandle(name) == Obj([extension |-> name])

\* a context as the host hands it out
Context(id, opts, exts) ==
    Obj([contextId |-> id, options |-> opts, exts |-> exts,
         OES_texture_float |-> Undefined,
         OES_texture_float_linear |-> Undefined,
         OES_element_index_uint |-> Undefined])

IsContext(x) == x.t = "object" /\ "contextId" \in DOMAIN x.v

\* canvas.getContext(id, opts)
getContext(canvasObj, id, opts) ==
    IF (id = "experimental-webgl" /\ canvasObj.v.exp) \/ (id = "webgl" /\ canvasObj.v.std)
    THEN Context(id, opts, env.exts)
    ELSE Null

\* gl.getExtension(name)
getExtension(gl, name) == IF name \in gl.v.exts THEN ExtHandle(name) ELSE Null

-----------------------------------------------------------------------------
(* UtilsCore: canvas and WebGL *)

\* property read x.nodeName; x is neither null nor undefined
NodeNameOf(x) == IF x.t = "object" /\ "nodeName" \in DOMAIN x.v THEN x.v.nodeName ELSE Undefined

\* property read x.getContext, as a JS value
GetContextOf(x) ==
    IF x.t = "object" /\ "getContext" \in DOMAIN x.v /\ x.v.getContext
    THEN Obj([function |-> "getContext"]) ELSE Undefined

isCanvas(canvasObj) ==
    IF canvasObj = Null THEN Return(Bool(FALSE), <<>>)
    ELSE IF canvasObj = Undefined THEN Throw(TypeError, <<>>)
    ELSE Return(
        AndAlso(NodeNameOf(canvasObj),
          AndAlso(GetContextOf(canvasObj),
            Bool(toUpperCase(NodeNameOf(canvasObj).v) = CANVAS))), <<>>)

isCanvasSupported == Return(isCanvasSupportedC, <<>>)

\* initCanvas without the test of _isCanvasSupported
initCanvas_noGuard ==
    Return(Element(env.elem.v.nodeName, env.elem.v.getContext,
                   env.elem.v.exp, env.elem.v.std, 2, 2),
           <<[req |-> "createElement", id |-> "canvas"]>>)

initCanvas ==
    IF ~Truthy(isCanvasSupportedC) THEN Return(Null, <<>>)
    ELSE Return(Element(env.elem.v.nodeName, env.elem.v.getContext,
                        env.elem.v.exp, env.elem.v.std, 2, 2),
                <<[req |-> "createElement", id |-> "canvas"]>>)

\* a host context inherits getExtension from its prototype; no other value of
\* the model has a __proto__ or a prototype that owns getExtension
isWebGl(webGlObj) ==
    IF webGlObj = Null THEN Bool(FALSE)
    ELSE IF IsContext(webGlObj) THEN Bool(TRUE)
    ELSE Undefined

isWebGlDrawBuffersSupported == Return(isDrawBuffersC, <<>>)

initWebGlDefaultOptions == [alpha |-> FALSE, depth |-> FALSE, antialias |-> FALSE]

GetContextReq(id, opts) == [req |-> "getContext", id |-> id, options |-> opts]
GetExtensionReq(name)   == [req |-> "getExtension", id |-> name]

\* the extensions stored under each other's names
WithExtensions_swapped(webGl) ==
    Obj([webGl.v EXCEPT
        !.OES_texture_float        = getExtension(webGl, "OES_texture_float_linear"),
        !.OES_texture_float_linear = getExtension(webGl, "OES_element_index_uint"),
        !.OES_element_index_uint   = getExtension(webGl, "OES_texture_float")])

\* lines 200-205: the three extensions are stored on the context
WithExtensions(webGl) ==
    Obj([webGl.v EXCEPT
        !.OES_texture_float        = getExtension(webGl, "OES_texture_float"),
        !.OES_texture_float_linear = getExtension(webGl, "OES_texture_float_linear"),
        !.OES_element_index_uint   = getExtension(webGl, "OES_element_index_uint")])

\* initWebGl with the invalid-canvas failure turned into a null return
initWebGl_nullOnInvalid(canvasObj) ==
    IF /\ (isCanvasSupportedC.t # "undefined" \/ canvasObj = Null)
       /\ ~Truthy(isCanvasSupportedC)
    THEN Return(Null, <<>>)
    ELSE IF isCanvas(canvasObj).kind = "throw" THEN Throw(TypeError, <<>>)
    ELSE IF ~Truthy(isCanvas(canvasObj).val) THEN Return(Null, <<>>)
    ELSE
      LET first  == getContext(canvasObj, "experimental-webgl", initWebGlDefaultOptions)
          second == getContext(canvasObj, "webgl", initWebGlDefaultOptions)
          webGl  == OrElse(first, second)
          reqs   == <<GetContextReq("experimental-webgl", initWebGlDefaultOptions)>> \o
                    (IF Truthy(first) THEN <<>>
                     ELSE <<GetContextReq("webgl", initWebGlDefaultOptions)>>)
      IN IF webGl = Null
         THEN Throw(TypeError, reqs)
         ELSE Return(WithExtensions(webGl),
                     reqs \o <<GetExtensionReq("OES_texture_float"),
                               GetExtensionReq("OES_texture_float_linear"),
                               GetExtensionReq("OES_element_index_uint")>>)

\* initWebGl without the fail-fast test of lines 182-186
initWebGl_noFailFast(canvasObj) ==
    IF isCanvas(canvasObj).kind = "throw" THEN Throw(TypeError, <<>>)
    ELSE IF ~Truthy(isCanvas(canvasObj).val) THEN Throw(InvalidCanvas, <<>>)
    ELSE
      LET first  == getContext(canvasObj, "experimental-webgl", initWebGlDefaultOptions)
          second == getContext(canvasObj, "webgl", initWebGlDefaultOptions)
          webGl  == OrElse(first, second)
          reqs   == <<GetContextReq("experimental-webgl", initWebGlDefaultOptions)>> \o
                    (IF Truthy(first) THEN <<>>
                     ELSE <<GetContextReq("webgl", initWebGlDefaultOptions)>>)
      IN IF webGl = Null
         THEN Throw(TypeError, reqs)
         ELSE Return(WithExtensions(webGl),
                     reqs \o <<GetExtensionReq("OES_texture_float"),
                               GetExtensionReq("OES_texture_float_linear"),
                               GetExtensionReq("OES_element_index_uint")>>)

\* initWebGl asking for 'webgl' before 'experimental-webgl'
initWebGl_standardFirst(canvasObj) ==
    IF /\ (isCanvasSupportedC.t # "undefined" \/ canvasObj = Null)
       /\ ~Truthy(isCanvasSupportedC)
    THEN Return(Null, <<>>)
    ELSE IF isCanvas(canvasObj).kind = "throw" THEN Throw(TypeError, <<>>)
    ELSE IF ~Truthy(isCanvas(canvasObj).val) THEN Throw(InvalidCanvas, <<>>)
    ELSE
      LET first  == getContext(canvasObj, "webgl", initWebGlDefaultOptions)
          second == getContext(canvasObj, "experimental-webgl", initWebGlDefaultOptions)
          webGl  == OrElse(first, second)
          reqs   == <<GetContextReq("webgl", initWebGlDefaultOptions)>> \o
                    (IF Truthy(first) THEN <<>>
                     ELSE <<GetContextReq("experimental-webgl", initWebGlDefaultOptions)>>)
      IN IF webGl = Null
         THEN Throw(TypeError, reqs)
         ELSE Return(WithExtensions(webGl),
                     reqs \o <<GetExtensionReq("OES_texture_float"),
                               GetExtensionReq("OES_texture_float_linear"),
                               GetExtensionReq("OES_element_index_uint")>>)

initWebGl(canvasObj) ==
    IF /\ (isCanvasSupportedC.t # "undefined" \/ canvasObj = Null)
       /\ ~Truthy(isCanvasSupportedC)
    THEN Return(Null, <<>>)
    ELSE IF isCanvas(canvasObj).kind = "throw" THEN Throw(TypeError, <<>>)
    ELSE IF ~Truthy(isCanvas(canvasObj).val) THEN Throw(InvalidCanvas, <<>>)
    ELSE
      LET first  == getContext(canvasObj, "experimental-webgl", initWebGlDefaultOptions)
          second == getContext(canvasObj, "webgl", initWebGlDefaultOptions)
          webGl  == OrElse(first, second)
          reqs   == <<GetContextReq("experimental-webgl", initWebGlDefaultOptions)>> \o
                    (IF Truthy(first) THEN <<>>
                     ELSE <<GetContextReq("webgl", initWebGlDefaultOptions)>>)
      IN IF webGl = Null
         THEN Throw(TypeError, reqs)      \* line 200: webGl.getExtension on null
         ELSE Return(WithExtensions(webGl),
                     reqs \o <<GetExtensionReq("OES_texture_float"),
                               GetExtensionReq("OES_texture_float_linear"),
                               GetExtensionReq("OES_element_index_uint")>>)

\* isWebGlSupported running the detection again instead of reading the constant
isWebGlSupported_reprobe ==
    LET c == initCanvas
        w == initWebGl(c.val)
    IN IF w.kind = "throw" THEN Throw(w.val, c.log \o w.log)
       ELSE Return(isWebGl(w.val), c.log \o w.log)

isWebGlSupported == Return(isWebGlSupportedC, <<>>)

-----------------------------------------------------------------------------
(* JSON.parse, over the grammar the descriptors use: the literals null, true *)
(* and false, unsigned integers, strings without escapes, and objects        *)

Digits == <<"0", "1", "2", "3", "4", "5", "6", "7", "8", "9">>

IsDigit(c) == \E d \in 1..10 : Digits[d] = c

DigitValue(c) == (CHOOSE d \in 1..10 : Digits[d] = c) - 1

IsWs(c) == c = " "

Drop(s, n) == SubSeq(s, n + 1, Len(s))

StartsWith(s, p) == Len(s) >= Len(p) /\ SubSeq(s, 1, Len(p)) = p

\* the number of leading characters of s that satisfy the test
RECURSIVE WsPrefix(_)
WsPrefix(s) == IF s # <<>> /\ IsWs(Head(s)) THEN 1 + WsPrefix(Tail(s)) ELSE 0

RECURSIVE DigitPrefix(_)
DigitPrefix(s) == IF s # <<>> /\ IsDigit(Head(s)) THEN 1 + DigitPrefix(Tail(s)) ELSE 0

SkipWs(s) == Drop(s, WsPrefix(s))

RECURSIVE DecimalValue(_)
DecimalValue(ds) ==
    IF ds = <<>> THEN 0
    ELSE 10 * DecimalValue(SubSeq(ds, 1, Len(ds) - 1)) + DigitValue(ds[Len(ds)])

ParseFail     == [ok |-> FALSE, val |-> Undefined, rest |-> <<>>]
ParseOk(v, r) == [ok |-> TRUE, val |-> v, rest |-> r]

C_null  == <<"n", "u", "l", "l">>
C_true  == <<"t", "r", "u", "e">>
C_false == <<"f", "a", "l", "s", "e">>
Quote   == "\""

\* s starts with a quote
ParseString(s) ==
    IF \E i \in 2..Len(s) : s[i] = Quote
    THEN LET close == CHOOSE i \in 2..Len(s) :
                          s[i] = Quote /\ \A j \in 2..(i - 1) : s[j] # Quote
         IN ParseOk(Str(SubSeq(s, 2, close - 1)), Drop(s, close))
    ELSE ParseFail

\* s starts with a digit; a leading zero stands alone
ParseNumber(s) ==
    LET n == IF Head(s) = "0" THEN 1 ELSE DigitPrefix(s)
    IN ParseOk(Num(DecimalValue(SubSeq(s, 1, n))), Drop(s, n))

RECURSIVE ParseValue(_)
RECURSIVE ParseMembers(_, _)

\* the members of an object after "{" or ","; a repeated key keeps the last value
ParseMembers(s0, acc) ==
    LET s == SkipWs(s0)
    IN IF s = <<>> \/ Head(s) # Quote THEN ParseFail
       ELSE LET k == ParseString(s)
                c == SkipWs(k.rest)
            IN IF ~k.ok \/ c = <<>> \/ Head(c) # ":" THEN ParseFail
               ELSE LET m  == ParseValue(Tail(c))
                        e  == SkipWs(m.rest)
                        ob == [key \in DOMAIN acc \cup {k.val.v} |->
                                 IF key = k.val.v THEN m.val ELSE acc[key]]
                    IN IF ~m.ok \/ e = <<>> THEN ParseFail
                       ELSE IF Head(e) = "}" THEN ParseOk(Obj(ob), Tail(e))
                       ELSE IF Head(e) = "," THEN ParseMembers(Tail(e), ob)
                       ELSE ParseFail

ParseValue(s0) ==
    LET s == SkipWs(s0)
    IN IF s = <<>> THEN ParseFail
       ELSE IF StartsWith(s, C_null)  THEN ParseOk(Null, Drop(s, 4))
       ELSE IF StartsWith(s, C_true)  THEN ParseOk(Bool(TRUE), Drop(s, 4))
       ELSE IF StartsWith(s, C_false) THEN ParseOk(Bool(FALSE), Drop(s, 5))
       ELSE IF Head(s) = Quote THEN ParseString(s)
       ELSE IF IsDigit(Head(s)) THEN ParseNumber(s)
       ELSE IF Head(s) = "{"
            THEN LET b == SkipWs(Tail(s))
                 IN IF b # <<>> /\ Head(b) = "}"
                    THEN ParseOk(Obj(<<>>), Tail(b))
                    ELSE ParseMembers(Tail(s), <<>>)
       ELSE ParseFail

SyntaxError == [t |-> "SyntaxError", v |-> "JSON.parse"]

JSONparse(text) ==
    LET r == ParseValue(text)
    IN IF r.ok /\ SkipWs(r.rest) = <<>> THEN Return(r.val, <<>>)
       ELSE Throw(SyntaxError, <<>>)

-----------------------------------------------------------------------------
(* UtilsCore.validateKernelObj *)

C_isKernelObj == <<"i", "s", "K", "e", "r", "n", "e", "l", "O", "b", "j">>

\* property read x[key]; x is neither null nor undefined; primitives have no
\* such property on their prototypes
GetProp(x, key) ==
    IF x.t = "object" /\ key \in DOMAIN x.v THEN x.v[key] ELSE Undefined

\* ToNumber of a string: blank is 0, decimal digits are their value, else NaN
StringToNumber(s) ==
    LET body == SkipWs(s)
        n    == DigitPrefix(body)
    IN IF body = <<>> THEN Num(0)
       ELSE IF n > 0 /\ SkipWs(Drop(body, n)) = <<>>
            THEN Num(DecimalValue(SubSeq(body, 1, n)))
       ELSE NaN

\* x == true: the boolean becomes the number 1 and x is compared with it;
\* a plain object converts to "[object Object]", which is not a number
LooseEqualsTrue(x) ==
    CASE x.t = "boolean" -> x.v
      [] x.t = "number"  -> x.v = 1
      [] x.t = "string"  -> StringToNumber(x.v) = Num(1)
      [] OTHER           -> FALSE

ThrownString(msg) == [t |-> "thrown string", v |-> msg]

NullKernelObj      == ThrownString("KernelObj being validated is NULL")
JsonKernelObj      == ThrownString("Failed to convert KernelObj from JSON string")
NullJsonKernelObj  == ThrownString("Invalid (NULL) KernelObj JSON string representation")
MissingFlag        == ThrownString("Failed missing isKernelObj flag check")

ParseReq      == [req |-> "JSON.parse", id |-> "kernelObj"]
ConsoleReq    == [req |-> "console.error", id |-> "e"]
FlagReadReq   == [req |-> "get", id |-> "isKernelObj"]

\* lines 286-292
FlagCheck(kernelObj, log) ==
    IF ~LooseEqualsTrue(GetProp(kernelObj, C_isKernelObj))
    THEN Throw(MissingFlag, log \o <<FlagReadReq>>)
    ELSE Return(kernelObj, log \o <<FlagReadReq>>)

\* validateKernelObj without the second null test of lines 280-283
validateKernelObj_noDecodedNullTest(kernelObj) ==
    IF kernelObj = Null \/ kernelObj = Undefined
    THEN Throw(NullKernelObj, <<>>)
    ELSE IF kernelObj.t = "string"
    THEN LET parsed == JSONparse(kernelObj.v)
         IN IF parsed.kind = "throw"
            THEN Throw(JsonKernelObj, <<ParseReq, ConsoleReq>>)
            ELSE FlagCheck(parsed.val, <<ParseReq>>)
    ELSE FlagCheck(kernelObj, <<>>)

\* validateKernelObj checking the decoded object but returning its argument
validateKernelObj_returnsArgument(kernelObj) ==
    IF kernelObj = Null \/ kernelObj = Undefined
    THEN Throw(NullKernelObj, <<>>)
    ELSE IF kernelObj.t = "string"
    THEN LET parsed == JSONparse(kernelObj.v)
         IN IF parsed.kind = "throw"
            THEN Throw(JsonKernelObj, <<ParseReq, ConsoleReq>>)
            ELSE IF parsed.val = Null \/ parsed.val = Undefined
            THEN Throw(NullJsonKernelObj, <<ParseReq>>)
            ELSE [FlagCheck(parsed.val, <<ParseReq>>) EXCEPT
                    !.val = IF @ = MissingFlag THEN @ ELSE kernelObj]
    ELSE FlagCheck(kernelObj, <<>>)

validateKernelObj(kernelObj) ==
    IF kernelObj = Null \/ kernelObj = Undefined
    THEN Throw(NullKernelObj, <<>>)
    ELSE IF kernelObj.t = "string"
    THEN LET parsed == JSONparse(kernelObj.v)
         IN IF parsed.kind = "throw"
            THEN Throw(JsonKernelObj, <<ParseReq, ConsoleReq>>)
            ELSE IF parsed.val = Null \/ parsed.val = Undefined
            THEN Throw(NullJsonKernelObj, <<ParseReq>>)
            ELSE FlagCheck(parsed.val, <<ParseReq>>)
    ELSE FlagCheck(kernelObj, <<>>)

-----------------------------------------------------------------------------
(* Module initialization, lines 303-312, one action per statement *)

NoCall == [op |-> "none", arg |-> Undefined, kind |-> "none", val |-> Undefined, log |-> <<>>]

Called(op, arg, out) ==
    [op |-> op, arg |-> arg, kind |-> out.kind, val |-> out.val, log |-> out.log]

NoStatics == [OES_texture_float |-> Undefined,
              OES_texture_float_linear |-> Undefined,
              OES_element_index_uint |-> Undefined]

CapInit ==
    /\ env \in RealEnvs
    /\ pc = "L303"
    /\ isCanvasSupportedC = Uninit
    /\ testingWebGl = Uninit
    /\ isWebGlSupportedC = Uninit
    /\ isDrawBuffersC = Uninit
    /\ statics = NoStatics
    /\ call = NoCall

L303 ==
    /\ pc = "L303"
    /\ IF env.hasDocument
       THEN /\ isCanvasSupportedC' = isCanvas(env.elem).val
            /\ call' = Called("isCanvas", env.elem,
                    [isCanvas(env.elem) EXCEPT
                        !.log = <<[req |-> "createElement", id |-> "canvas"]>>])
       ELSE /\ isCanvasSupportedC' = Bool(FALSE)
            /\ call' = call
    /\ pc' = "L304"
    /\ UNCHANGED <<env, testingWebGl, isWebGlSupportedC, isDrawBuffersC, statics>>
    /\ UNCHANGED cloneVars

\* line 304, the argument: initCanvas()
L304_initCanvas ==
    /\ pc = "L304"
    /\ call' = Called("initCanvas", Undefined, initCanvas)
    /\ pc' = "L304 initWebGl"
    /\ UNCHANGED <<env, isCanvasSupportedC, testingWebGl, isWebGlSupportedC,
                   isDrawBuffersC, statics>>
    /\ UNCHANGED cloneVars

\* line 304, the call: initWebGl of what initCanvas returned
L304 ==
    /\ pc = "L304 initWebGl"
    /\ LET w == initWebGl(call.val)
       IN /\ call' = Called("initWebGl", call.val, w)
          /\ IF w.kind = "throw"
             THEN pc' = "failed" /\ testingWebGl' = testingWebGl
             ELSE pc' = "L305" /\ testingWebGl' = w.val
    /\ UNCHANGED <<env, isCanvasSupportedC, isWebGlSupportedC, isDrawBuffersC, statics>>
    /\ UNCHANGED cloneVars

L305 ==
    /\ pc = "L305"
    /\ isWebGlSupportedC' = isWebGl(testingWebGl)
    /\ call' = Called("isWebGl", testingWebGl, Return(isWebGl(testingWebGl), <<>>))
    /\ pc' = "L306"
    /\ UNCHANGED <<env, isCanvasSupportedC, testingWebGl, isDrawBuffersC, statics>>
    /\ UNCHANGED cloneVars

\* _testingWebGl.getExtension(...) on null is a TypeError that ends the load
L306 ==
    /\ pc = "L306"
    /\ IF testingWebGl = Null
       THEN /\ pc' = "failed"
            /\ call' = Called("load", testingWebGl, Throw(TypeError, <<>>))
            /\ isDrawBuffersC' = isDrawBuffersC
       ELSE /\ pc' = "L308"
            /\ call' = Called("load", testingWebGl,
                    Return(Undefined, <<GetExtensionReq("WEBGL_draw_buffers")>>))
            /\ isDrawBuffersC' =
                    Bool(Truthy(getExtension(testingWebGl, "WEBGL_draw_buffers")))
    /\ UNCHANGED <<env, isCanvasSupportedC, testingWebGl, isWebGlSupportedC, statics>>
    /\ UNCHANGED cloneVars

L308 ==
    /\ pc = "L308"
    /\ statics' = [statics EXCEPT !.OES_texture_float = testingWebGl.v.OES_texture_float]
    /\ pc' = "L309"
    /\ UNCHANGED <<env, isCanvasSupportedC, testingWebGl, isWebGlSupportedC,
                   isDrawBuffersC, call>>
    /\ UNCHANGED cloneVars

L309 ==
    /\ pc = "L309"
    /\ statics' = [statics EXCEPT
            !.OES_texture_float_linear = testingWebGl.v.OES_texture_float_linear]
    /\ pc' = "L310"
    /\ UNCHANGED <<env, isCanvasSupportedC, testingWebGl, isWebGlSupportedC,
                   isDrawBuffersC, call>>
    /\ UNCHANGED cloneVars

L310 ==
    /\ pc = "L310"
    /\ statics' = [statics EXCEPT
            !.OES_element_index_uint = testingWebGl.v.OES_element_index_uint]
    /\ pc' = "L312"
    /\ UNCHANGED <<env, isCanvasSupportedC, testingWebGl, isWebGlSupportedC,
                   isDrawBuffersC, call>>
    /\ UNCHANGED cloneVars

\* module.exports = UtilsCore: from here on the methods can be called
L312 ==
    /\ pc = "L312"
    /\ pc' = "loaded"
    /\ UNCHANGED <<env, isCanvasSupportedC, testingWebGl, isWebGlSupportedC,
                   isDrawBuffersC, statics, call>>
    /\ UNCHANGED cloneVars

-----------------------------------------------------------------------------
(* Calls of the exported methods *)

NotASurface == <<"n", "o", "t", " ", "a", " ", "s", "u", "r", "f", "a", "c", "e">>
EmptyRecord == Obj(<<>>)

\* caller-made objects that look, more or less, like a canvas
CallerElements ==
    { Element(n, g, e, s, 2, 2) :
        n \in {Undefined, Str(<<>>), Str(DIV), Str(canvasLower), Str(CANVAS)},
        g \in BOOLEAN, e \in BOOLEAN, s \in BOOLEAN }

SurfaceArgs ==
    {Null, Undefined, Str(NotASurface), EmptyRecord} \cup
    { el \in CallerElements : ~el.v.getContext => ~el.v.exp /\ ~el.v.std }

snapshot == <<env, pc, isCanvasSupportedC, testingWebGl, isWebGlSupportedC,
              isDrawBuffersC, statics>>

CallIsCanvas ==
    /\ pc = "loaded"
    /\ \E a \in SurfaceArgs : call' = Called("isCanvas", a, isCanvas(a))
    /\ UNCHANGED snapshot
    /\ UNCHANGED cloneVars

CallIsCanvasSupported ==
    /\ pc = "loaded"
    /\ call' = Called("isCanvasSupported", Undefined, isCanvasSupported)
    /\ UNCHANGED snapshot
    /\ UNCHANGED cloneVars

CallInitCanvas ==
    /\ pc = "loaded"
    /\ call' = Called("initCanvas", Undefined, initCanvas)
    /\ UNCHANGED snapshot
    /\ UNCHANGED cloneVars

CallIsWebGlSupported ==
    /\ pc = "loaded"
    /\ call' = Called("isWebGlSupported", Undefined, isWebGlSupported)
    /\ UNCHANGED snapshot
    /\ UNCHANGED cloneVars

CallIsWebGlDrawBuffersSupported ==
    /\ pc = "loaded"
    /\ call' = Called("isWebGlDrawBuffersSupported", Undefined, isWebGlDrawBuffersSupported)
    /\ UNCHANGED snapshot
    /\ UNCHANGED cloneVars

CallInitWebGl ==
    /\ pc = "loaded"
    /\ \E a \in SurfaceArgs : call' = Called("initWebGl", a, initWebGl(a))
    /\ UNCHANGED snapshot
    /\ UNCHANGED cloneVars

CallInitWebGlDefaultOptions ==
    /\ pc = "loaded"
    /\ call' = Called("initWebGlDefaultOptions", Undefined,
                      Return(Obj(initWebGlDefaultOptions), <<>>))
    /\ UNCHANGED snapshot
    /\ UNCHANGED cloneVars

C_foo == <<"f", "o", "o">>

Absent == [t |-> "absent", v |-> "absent"]     \* no such property

\* a descriptor record with the given flag value and, maybe, a field foo: 1
Descriptor(flag, hasFoo) ==
    Obj([key \in (IF flag = Absent THEN {} ELSE {C_isKernelObj}) \cup
                 (IF hasFoo THEN {C_foo} ELSE {}) |->
            IF key = C_isKernelObj THEN flag ELSE Num(1)])

FlagValues ==
    {Absent, Bool(TRUE), Bool(FALSE), Num(1), Num(0), Null,
     Str(<<"1">>), Str(C_true), Str(<<>>), Descriptor(Bool(TRUE), FALSE)}

StructuredArgs == { Descriptor(f, h) : f \in FlagValues, h \in BOOLEAN }

Member(key, valueText) == <<Quote>> \o key \o <<Quote, ":">> \o valueText
Braces(members) == <<"{">> \o members \o <<"}">>

T_notJson       == <<"{", "n", "o", "t", " ", "j", "s", "o", "n">>
T_empty         == <<>>
T_unclosed      == <<"{">> \o Member(C_isKernelObj, C_true)
T_trailing      == Braces(Member(C_isKernelObj, C_true)) \o <<"x">>
T_null          == C_null
T_nullPadded    == <<" ">> \o C_null \o <<" ">>
T_true          == C_true
T_one           == <<"1">>
T_emptyObj      == <<"{", "}">>
T_flagTrue      == Braces(Member(C_isKernelObj, C_true))
T_flagFalse     == Braces(Member(C_isKernelObj, C_false))
T_flagOne       == Braces(Member(C_isKernelObj, <<"1">>))
T_flagStrOne    == Braces(Member(C_isKernelObj, <<Quote, "1", Quote>>))
T_flagStrTrue   == Braces(Member(C_isKernelObj, <<Quote>> \o C_true \o <<Quote>>))
T_flagNull      == Braces(Member(C_isKernelObj, C_null))
T_flagTrueFoo   == Braces(Member(C_isKernelObj, C_true) \o <<",", " ">> \o Member(C_foo, <<"1">>))
T_flagTwice     == Braces(Member(C_isKernelObj, C_false) \o <<",">> \o Member(C_isKernelObj, C_true))
T_flagNested    == Braces(Member(C_foo, T_flagTrue))

MalformedTexts == {T_notJson, T_empty, T_unclosed, T_trailing}
NullTexts      == {T_null, T_nullPadded}
DecodableTexts == {T_true, T_one, T_emptyObj, T_flagTrue, T_flagFalse, T_flagOne,
                   T_flagStrOne, T_flagStrTrue, T_flagNull, T_flagTrueFoo,
                   T_flagTwice, T_flagNested}

KernelObjArgs ==
    {Null, Undefined, Num(1), Bool(TRUE)} \cup StructuredArgs \cup
    { Str(x) : x \in MalformedTexts \cup NullTexts \cup DecodableTexts }

CallValidateKernelObj ==
    /\ pc = "loaded"
    /\ \E k \in KernelObjArgs :
          call' = Called("validateKernelObj", k, validateKernelObj(k))
    /\ UNCHANGED snapshot
    /\ UNCHANGED cloneVars

CapNext ==
    \/ CallValidateKernelObj
    \/ L303 \/ L304_initCanvas \/ L304 \/ L305 \/ L306 \/ L308 \/ L309 \/ L310 \/ L312
    \/ CallIsCanvas \/ CallIsCanvasSupported \/ CallInitCanvas
    \/ CallIsWebGlSupported \/ CallIsWebGlDrawBuffersSupported \/ CallInitWebGl
    \/ CallInitWebGlDefaultOptions

-----------------------------------------------------------------------------
(* UtilsCore.clone, lines 226-240, one action per statement.  Objects live  *)
(* in a heap and are referred to by their index, so that "the same object"  *)
(* and "an equal object" are different things.                              *)

MaxObjects == 2             \* objects in the graph handed to clone

KeyOrder == <<"self", "other">>     \* the property names of the graph's objects
Keys == {KeyOrder[i] : i \in 1..Len(KeyOrder)}

Marker == "isActiveClone"

Ref(i) == [t |-> "object", v |-> i]

IsRef(x) == x.t = "object"

Prop(k, v) == [k |-> k, v |-> v]

PlainObject(props) == [kind |-> "Object", props |-> props]

\* Object.prototype.hasOwnProperty.call(h[i], key)
HasOwn(h, i, key) == \E j \in 1..Len(h[i].props) : h[i].props[j].k = key

\* h[i][key], an own property
GetOwn(h, i, key) ==
    h[i].props[CHOOSE j \in 1..Len(h[i].props) : h[i].props[j].k = key].v

\* the own enumerable property names of h[i], in insertion order
OwnKeys(h, i) == [j \in 1..Len(h[i].props) |-> h[i].props[j].k]

\* h[i][key] = val: an existing property keeps its place, a new one goes last
SetProp(h, i, key, val) ==
    [h EXCEPT ![i].props =
        IF HasOwn(h, i, key)
        THEN [j \in 1..Len(@) |-> IF @[j].k = key THEN Prop(key, val) ELSE @[j]]
        ELSE Append(@, Prop(key, val))]

\* delete h[i][key]
DeleteProp(h, i, key) ==
    [h EXCEPT ![i].props = SelectSeq(@, LAMBDA p : p.k # key)]

\* the graphs: every property of every object is absent, a primitive or a
\* reference; at most one object is special, either an instance of a class
\* (its constructor cannot be called without new) or a record that has an
\* own property named isActiveClone to begin with
PrimChoice == [t |-> "primitive", v |-> "primitive"]

PropChoices == {Absent, PrimChoice} \cup {Ref(i) : i \in 1..MaxObjects}

PrimAt(i, key) == IF key = "self" THEN Num(i) ELSE Null

Specials ==
    {[o |-> 0, what |-> "none"]} \cup
    {[o |-> i, what |-> w] : i \in 1..MaxObjects, w \in {"class", "marked"}}

ChosenProps(i, ch) ==
    LET present == SelectSeq(KeyOrder, LAMBDA k : ch[k] # Absent)
    IN [j \in 1..Len(present) |->
          Prop(present[j],
               IF ch[present[j]] = PrimChoice THEN PrimAt(i, present[j])
               ELSE ch[present[j]])]

GraphOf(choice, special) ==
    [i \in 1..MaxObjects |->
        [kind  |-> IF special = [o |-> i, what |-> "class"] THEN "Class" ELSE "Object",
         props |-> ChosenProps(i, choice[i]) \o
                   (IF special = [o |-> i, what |-> "marked"]
                    THEN <<Prop(Marker, Num(1))>> ELSE <<>>)]]

\* the objects h[i] refers to
RefsOf(h, i) ==
    { h[i].props[j].v.v : j \in {n \in 1..Len(h[i].props) : IsRef(h[i].props[n].v)} }

RECURSIVE ReachFrom(_, _)
ReachFrom(h, S) ==
    LET T == S \cup UNION { RefsOf(h, i) : i \in S }
    IN IF T = S THEN S ELSE ReachFrom(h, T)

\* the objects reachable from the value x
Reach(h, x) == IF IsRef(x) THEN ReachFrom(h, {x.v}) ELSE {}

\* objects that the argument does not reach are left empty: they play no part
Graphs ==
    { g \in { GraphOf(c, sp) : c \in [1..MaxObjects -> [Keys -> PropChoices]],
                               sp \in Specials } :
        \A i \in 1..MaxObjects :
            i \notin ReachFrom(g, {1}) => g[i] = PlainObject(<<>>) }

EmptyGraph == [i \in 1..MaxObjects |-> PlainObject(<<>>)]

NoFrame == [arg |-> Undefined, obj |-> 0, temp |-> 0, keys |-> <<>>, key |-> "", pc |-> "L227"]

CloneIdle ==
    /\ heap = input.graph
    /\ stack = <<>>
    /\ cstate = "idle"
    /\ result = Undefined

CloneInit ==
    /\ \/ input \in { [arg |-> Ref(1), graph |-> g] : g \in Graphs }
       \/ input \in { [arg |-> a, graph |-> EmptyGraph] : a \in {Null, Undefined, Num(1), Str(C_true)} }
    /\ CloneIdle

Top == stack[Len(stack)]

SetTop(f) == [stack EXCEPT ![Len(stack)] = f]

\* UtilsCore.clone(input.arg) is called
CallClone ==
    /\ cstate = "idle"
    /\ cstate' = "running"
    /\ stack' = <<[NoFrame EXCEPT !.arg = input.arg]>>
    /\ UNCHANGED <<input, heap, result>>
    /\ UNCHANGED capVars

\* return val: the innermost call ends; its caller, if any, is at line 234
\* and stores the value in temp[key]
ReturnValue(val) ==
    IF Len(stack) = 1
    THEN /\ stack' = <<>>
         /\ cstate' = "returned"
         /\ result' = val
         /\ heap' = heap
    ELSE LET caller == stack[Len(stack) - 1]
         IN /\ heap' = SetProp(heap, caller.temp, caller.key, val)
            /\ stack' = [SubSeq(stack, 1, Len(stack) - 1) EXCEPT
                            ![Len(stack) - 1] = [caller EXCEPT !.pc = "L235"]]
            /\ UNCHANGED <<cstate, result>>

\* an error nothing catches: every active call is abandoned where it stands
ThrowError(err) ==
    /\ stack' = <<>>
    /\ cstate' = "thrown"
    /\ result' = err
    /\ heap' = heap

\* line 227 without the test of the marker
ReturnsArgument_noMarkerTest(h, obj) ==
    obj = Null \/ ~IsRef(obj)

\* line 227: the condition under which clone returns its argument as it is
ReturnsArgument(h, obj) ==
    obj = Null \/ ~IsRef(obj) \/ HasOwn(h, obj.v, Marker)

\* line 227 returning null where it should return its argument
ArgumentReturned_null(obj) == Null

\* line 227: the value returned then
ArgumentReturned(obj) == obj

cloneL227 ==
    /\ cstate = "running"
    /\ Top.pc = "L227"
    /\ IF ReturnsArgument(heap, Top.arg)
       THEN ReturnValue(ArgumentReturned(Top.arg))
       ELSE /\ stack' = SetTop([Top EXCEPT !.obj = Top.arg.v, !.pc = "L229"])
            /\ UNCHANGED <<heap, cstate, result>>
    /\ UNCHANGED input
    /\ UNCHANGED capVars

\* line 229: temp = obj.constructor(); Object() yields a new empty record, a
\* class constructor called without new throws
cloneL229 ==
    /\ cstate = "running"
    /\ Top.pc = "L229"
    /\ IF heap[Top.obj].kind = "Class"
       THEN ThrowError(ClassCallError)
       ELSE /\ heap' = Append(heap, PlainObject(<<>>))
            /\ stack' = SetTop([Top EXCEPT !.temp = Len(heap) + 1,
                                           !.keys = OwnKeys(heap, Top.obj),
                                           !.pc = "L231"])
            /\ UNCHANGED <<cstate, result>>
    /\ UNCHANGED input
    /\ UNCHANGED capVars

\* lines 231-232: the next own property, or the end of the loop
cloneL231 ==
    /\ cstate = "running"
    /\ Top.pc = "L231"
    /\ stack' = SetTop(IF Top.keys = <<>>
                       THEN [Top EXCEPT !.pc = "L239"]
                       ELSE [Top EXCEPT !.key = Head(Top.keys),
                                        !.keys = Tail(Top.keys),
                                        !.pc = "L233"])
    /\ UNCHANGED <<input, heap, cstate, result>>
    /\ UNCHANGED capVars

\* line 233: obj.isActiveClone = null
cloneL233 ==
    /\ cstate = "running"
    /\ Top.pc = "L233"
    /\ heap' = SetProp(heap, Top.obj, Marker, Null)
    /\ stack' = SetTop([Top EXCEPT !.pc = "L234"])
    /\ UNCHANGED <<input, cstate, result>>
    /\ UNCHANGED capVars

\* line 234 as a shallow copy: temp[key] = obj[key]
cloneL234_shallow ==
    /\ cstate = "running"
    /\ Top.pc = "L234"
    /\ heap' = SetProp(heap, Top.temp, Top.key, GetOwn(heap, Top.obj, Top.key))
    /\ stack' = SetTop([Top EXCEPT !.pc = "L235"])
    /\ UNCHANGED <<input, cstate, result>>
    /\ UNCHANGED capVars

\* line 234: UtilsCore.clone(obj[key]) is called; the assignment to temp[key]
\* happens when it returns
cloneL234 ==
    /\ cstate = "running"
    /\ Top.pc = "L234"
    /\ stack' = Append(SetTop([Top EXCEPT !.pc = "L234 called"]),
                       [NoFrame EXCEPT !.arg = GetOwn(heap, Top.obj, Top.key)])
    /\ UNCHANGED <<input, heap, cstate, result>>
    /\ UNCHANGED capVars

\* line 235 left out: the marker stays
cloneL235_keepsMarker ==
    /\ cstate = "running"
    /\ Top.pc = "L235"
    /\ stack' = SetTop([Top EXCEPT !.pc = "L231"])
    /\ UNCHANGED <<input, heap, cstate, result>>
    /\ UNCHANGED capVars

\* line 235 as delete obj[key]
cloneL235_deletesKey ==
    /\ cstate = "running"
    /\ Top.pc = "L235"
    /\ heap' = DeleteProp(heap, Top.obj, Top.key)
    /\ stack' = SetTop([Top EXCEPT !.pc = "L231"])
    /\ UNCHANGED <<input, cstate, result>>
    /\ UNCHANGED capVars

\* line 235: delete obj.isActiveClone
cloneL235 ==
    /\ cstate = "running"
    /\ Top.pc = "L235"
    /\ heap' = DeleteProp(heap, Top.obj, Marker)
    /\ stack' = SetTop([Top EXCEPT !.pc = "L231"])
    /\ UNCHANGED <<input, cstate, result>>
    /\ UNCHANGED capVars

\* line 239: return temp
cloneL239 ==
    /\ cstate = "running"
    /\ Top.pc = "L239"
    /\ ReturnValue(Ref(Top.temp))
    /\ UNCHANGED input
    /\ UNCHANGED capVars

clone ==
    \/ cloneL227 \/ cloneL229 \/ cloneL231 \/ cloneL233
    \/ cloneL234 \/ cloneL235 \/ cloneL239

-----------------------------------------------------------------------------
(* Specifications *)

\* the module after a load on a host with canvas, WebGL and every extension
LoadedHost ==
    /\ env = [hasDocument |-> TRUE,
              elem |-> Element(Str(CANVAS), TRUE, TRUE, TRUE, 300, 150),
              exts |-> ExtNames]
    /\ pc = "loaded"
    /\ isCanvasSupportedC = Bool(TRUE)
    /\ testingWebGl = WithExtensions(Context("experimental-webgl",
                                             initWebGlDefaultOptions, ExtNames))
    /\ isWebGlSupportedC = Bool(TRUE)
    /\ isDrawBuffersC = Bool(TRUE)
    /\ statics = [OES_texture_float |-> ExtHandle("OES_texture_float"),
                  OES_texture_float_linear |-> ExtHandle("OES_texture_float_linear"),
                  OES_element_index_uint |-> ExtHandle("OES_element_index_uint")]
    /\ call = NoCall

\* the load of the module and the calls of its methods other than clone
Init ==
    /\ CapInit
    /\ input = [arg |-> Undefined, graph |-> EmptyGraph]
    /\ CloneIdle

Next == CapNext

Spec == Init /\ [][Next]_vars

\* one call of clone on a loaded module
InitClone == LoadedHost /\ CloneInit

NextClone == CallClone \/ clone

SpecClone == InitClone /\ [][NextClone]_vars

\* a call, once made, runs to its end: nothing else is scheduled
FairSpecClone == SpecClone /\ WF_vars(NextClone)

-----------------------------------------------------------------------------
(* Properties of the capability probe and of initWebGl *)

IsValidSurface(x) == isCanvas(x).kind = "return" /\ Truthy(isCanvas(x).val)

IsRejectedSurface(x) == isCanvas(x).kind = "return" /\ ~Truthy(isCanvas(x).val)

InLog(log, r) == \E i \in 1..Len(log) : log[i] = r

\* C1: on a host without a document the load never fails, and once it is
\* over webgl and draw buffers are reported unsupported, the three extension
\* fields are absent and the host was asked for no context and no extension.
C1_LoadTotalWithoutDocument ==
    ~env.hasDocument =>
        (/\ pc # "failed"
         /\ \A i \in 1..Len(call.log) : call.log[i].req \notin {"getContext", "getExtension"}
         /\ (pc = "loaded" =>
                (/\ isWebGlSupportedC = Bool(FALSE)
                 /\ isDrawBuffersC = Bool(FALSE)
                 /\ statics = NoStatics)))

\* C2: initWebGl on a valid canvas, canvas support having been detected,
\* returns null and does not throw when neither 'experimental-webgl' nor
\* 'webgl' resolves to a context.
C2_NullWhenNoContextResolves ==
    (/\ call.op = "initWebGl"
     /\ Truthy(isCanvasSupportedC)
     /\ IsValidSurface(call.arg)
     /\ ~call.arg.v.exp
     /\ ~call.arg.v.std)
    => (call.kind = "return" /\ call.val = Null)

\* C3 as stated: initWebGl throws the invalid-canvas error for every argument
\* that isCanvas rejects, whatever canvas support was detected.
C3_RejectedSurfaceAlwaysThrows ==
    (call.op = "initWebGl" /\ IsRejectedSurface(call.arg))
    => (call.kind = "throw" /\ call.val = InvalidCanvas)

\* C3 amended: initWebGl throws the invalid-canvas error for every argument
\* that isCanvas rejects when canvas support was detected; when it was not
\* detected, the call with null made by the module's initialization returns
\* null instead.
C3_RejectedSurfaceThrowsWhenCanvasSupported ==
    (call.op = "initWebGl" /\ IsRejectedSurface(call.arg))
    => (/\ Truthy(isCanvasSupportedC) =>
              (call.kind = "throw" /\ call.val = InvalidCanvas /\ call.log = <<>>)
        /\ ~Truthy(isCanvasSupportedC) =>
              (call.arg = Null /\ call.kind = "return" /\ call.val = Null))

C3_Witness ==
    /\ call.op = "initWebGl"
    /\ call.arg = Str(NotASurface)
    /\ Truthy(isCanvasSupportedC)
    /\ call.kind = "throw"
    /\ call.val = InvalidCanvas

\* C4 as stated: initWebGl(null) returns null, whatever canvas support was
\* detected.
C4_NullSurfaceAlwaysReturnsNull ==
    (call.op = "initWebGl" /\ call.arg = Null)
    => (call.kind = "return" /\ call.val = Null)

\* C4 amended: initWebGl(null) returns null exactly when canvas support was
\* not detected, which is the one case where the module's initialization
\* passes null; when canvas support was detected it throws the
\* invalid-canvas error.
C4_NullSurfaceReturnsNullIffCanvasUnsupported ==
    (call.op = "initWebGl" /\ call.arg = Null)
    => IF Truthy(isCanvasSupportedC)
       THEN call.kind = "throw" /\ call.val = InvalidCanvas
       ELSE call.kind = "return" /\ call.val = Null /\ pc \in {"L305", "L306", "failed"}

C4_Witness ==
    /\ call.op = "initWebGl"
    /\ call.arg = Null
    /\ ~Truthy(isCanvasSupportedC)
    /\ call.kind = "return"
    /\ call.val = Null

-----------------------------------------------------------------------------
(* Properties of the detected capabilities *)

Accessors == {"isCanvasSupported", "isWebGlSupported", "isWebGlDrawBuffersSupported"}

StoredValue(op) ==
    CASE op = "isCanvasSupported"           -> isCanvasSupportedC
      [] op = "isWebGlSupported"            -> isWebGlSupportedC
      [] op = "isWebGlDrawBuffersSupported" -> isDrawBuffersC

\* C12: each of _isCanvasSupported, _isWebGlSupported and
\* _isWebGlDrawBuffersSupported is assigned once, by the module's
\* initialization, and no call of an exported method changes it afterwards;
\* the three accessors are called only after all three are assigned, return
\* the stored value and make no request to the host.
C12_SnapshotWriteOnce ==
    /\ [](call.op \in Accessors =>
            (/\ isCanvasSupportedC # Uninit
             /\ isWebGlSupportedC # Uninit
             /\ isDrawBuffersC # Uninit
             /\ call.kind = "return"
             /\ call.val = StoredValue(call.op)
             /\ call.log = <<>>))
    /\ [][/\ isCanvasSupportedC # Uninit => isCanvasSupportedC' = isCanvasSupportedC
          /\ isWebGlSupportedC # Uninit => isWebGlSupportedC' = isWebGlSupportedC
          /\ isDrawBuffersC # Uninit => isDrawBuffersC' = isDrawBuffersC
          /\ pc = "loaded" =>
                (/\ pc' = "loaded"
                 /\ UNCHANGED <<isCanvasSupportedC, isWebGlSupportedC, isDrawBuffersC>>)
          /\ pc' = "loaded" =>
                (/\ isCanvasSupportedC' # Uninit
                 /\ isWebGlSupportedC' # Uninit
                 /\ isDrawBuffersC' # Uninit)]_vars

\* an accessor read on a host without WEBGL_draw_buffers
C12_Witness ==
    /\ pc = "loaded"
    /\ call.op = "isWebGlSupported"
    /\ call.val = Bool(TRUE)
    /\ isDrawBuffersC = Bool(FALSE)

CreateElementReq == [req |-> "createElement", id |-> "canvas"]

\* C13: initCanvas returns null and asks the host for nothing when
\* _isCanvasSupported is false (or any other falsy value); otherwise it asks
\* the host for one canvas element and returns it with width 2 and height 2,
\* and isCanvas is true of it.
C13_NullOrFreshSurface ==
    call.op = "initCanvas" =>
        (/\ call.kind = "return"
         /\ IF ~Truthy(isCanvasSupported.val)
            THEN call.val = Null /\ call.log = <<>>
            ELSE /\ call.log = <<CreateElementReq>>
                 /\ call.val.t = "object"
                 /\ call.val.v.width = 2
                 /\ call.val.v.height = 2
                 /\ isCanvas(call.val) = Return(Bool(TRUE), <<>>))

\* the call made by the module's initialization where no canvas was detected
C13_Witness ==
    /\ call.op = "initCanvas"
    /\ ~Truthy(isCanvasSupported.val)
    /\ call.val = Null
    /\ call.log = <<>>

\* x is an object with a nodeName that reads CANVAS in upper case and with
\* a getContext method
HasSurfaceShape(x) ==
    /\ x.t = "object"
    /\ "nodeName" \in DOMAIN x.v
    /\ x.v.nodeName.t = "string"
    /\ toUpperCase(x.v.nodeName.v) = CANVAS
    /\ "getContext" \in DOMAIN x.v
    /\ x.v.getContext

\* C14: isCanvas never throws; it returns the boolean true for an argument
\* that has the shape of a canvas and the boolean false for every other
\* argument.
C14_BooleanForEveryInput ==
    call.op = "isCanvas" =>
        (/\ call.kind = "return"
         /\ call.val = Bool(HasSurfaceShape(call.arg)))

IsGetContextReq(r) == r.req = "getContext"

ExperimentalReq ==
    [req |-> "getContext", id |-> "experimental-webgl",
     options |-> [alpha |-> FALSE, depth |-> FALSE, antialias |-> FALSE]]

StandardReq ==
    [req |-> "getContext", id |-> "webgl",
     options |-> [alpha |-> FALSE, depth |-> FALSE, antialias |-> FALSE]]

\* C15: initWebGl on a valid canvas asks for 'experimental-webgl' first and
\* for 'webgl' only when that gave no context, both with the options
\* {alpha: false, depth: false, antialias: false}, before anything else it
\* asks of the host; the context it returns is the first one it was given.
C15_ExperimentalThenStandard ==
    (call.op = "initWebGl" /\ IsValidSurface(call.arg)) =>
        (/\ SelectSeq(call.log, IsGetContextReq) =
                IF call.arg.v.exp THEN <<ExperimentalReq>>
                ELSE <<ExperimentalReq, StandardReq>>
         /\ \A i \in 1..Len(call.log), j \in 1..Len(call.log) :
                (IsGetContextReq(call.log[i]) /\ ~IsGetContextReq(call.log[j])) => i < j
         /\ call.kind = "return" =>
                (/\ IsContext(call.val)
                 /\ call.val.v.contextId =
                        (IF call.arg.v.exp THEN "experimental-webgl" ELSE "webgl")
                 /\ call.val.v.options =
                        [alpha |-> FALSE, depth |-> FALSE, antialias |-> FALSE])
         /\ (call.arg.v.exp \/ call.arg.v.std) => call.kind = "return")

\* a canvas that resolves 'webgl' only
C15_Witness ==
    /\ call.op = "initWebGl"
    /\ IsValidSurface(call.arg)
    /\ ~call.arg.v.exp
    /\ call.kind = "return"
    /\ call.val.v.contextId = "webgl"
    /\ Len(SelectSeq(call.log, IsGetContextReq)) = 2

StoredExtensions ==
    {"OES_texture_float", "OES_texture_float_linear", "OES_element_index_uint"}

\* what the host answers when asked for the extension: a handle or null
Resolved(name) == IF name \in env.exts THEN Obj([extension |-> name]) ELSE Null

\* C16: whenever initWebGl gets a context it returns it, having asked the
\* context for each of OES_texture_float, OES_texture_float_linear and
\* OES_element_index_uint and stored the answer, handle or null, under that
\* name on the context, whichever extensions the host has; once the module is
\* loaded its three static extension fields equal those of the probe context
\* and _isWebGlDrawBuffersSupported is true exactly when the probe context
\* resolved WEBGL_draw_buffers.
C16_ExtensionsRecorded ==
    /\ (call.op = "initWebGl" /\ IsValidSurface(call.arg)
            /\ (call.arg.v.exp \/ call.arg.v.std)) =>
          (/\ call.kind = "return"
           /\ IsContext(call.val)
           /\ \A n \in StoredExtensions :
                /\ call.val.v[n] = Resolved(n)
                /\ InLog(call.log, [req |-> "getExtension", id |-> n]))
    /\ pc \in {"L312", "loaded"} =>
          (/\ IsContext(testingWebGl)
           /\ \A n \in StoredExtensions :
                statics[n] = testingWebGl.v[n] /\ statics[n] = Resolved(n)
           /\ isDrawBuffersC = Bool("WEBGL_draw_buffers" \in testingWebGl.v.exts))

\* a host with OES_element_index_uint alone
C16_Witness ==
    /\ pc = "loaded"
    /\ env.exts = {"OES_element_index_uint"}
    /\ call.op = "initWebGl"
    /\ call.kind = "return"
    /\ call.val.v.OES_texture_float = Null
    /\ call.val.v.OES_element_index_uint = Obj([extension |-> "OES_element_index_uint"])
    /\ statics.OES_texture_float_linear = Null
    /\ isDrawBuffersC = Bool(FALSE)

-----------------------------------------------------------------------------
(* Properties of validateKernelObj *)

\* C9: validateKernelObj throws the missing-flag error for every non-null
\* descriptor whose isKernelObj is anything but the boolean true, and returns
\* only descriptors whose isKernelObj is the boolean true.
C9_FlagStrictlyTrue ==
    call.op = "validateKernelObj" =>
        (/\ (call.arg.t = "object" /\ GetProp(call.arg, C_isKernelObj) # Bool(TRUE))
                => (call.kind = "throw" /\ call.val = MissingFlag)
         /\ call.kind = "return" => GetProp(call.val, C_isKernelObj) = Bool(TRUE))

NullDescriptorErrors == {NullKernelObj, NullJsonKernelObj}

\* C10: validateKernelObj tests in a fixed order, each failure with its own
\* error: null input (nothing decoded), then a JSON text that does not decode,
\* then a JSON text that decodes to null; isKernelObj is read only after that.
C10_ChecksInOrder ==
    call.op = "validateKernelObj" =>
        (/\ (call.arg = Null \/ call.arg = Undefined)
                => (call.kind = "throw" /\ call.val = NullKernelObj /\ call.log = <<>>)
         /\ (call.arg.t = "string" /\ call.arg.v \in MalformedTexts)
                => (/\ call.kind = "throw" /\ call.val = JsonKernelObj
                    /\ call.log[1] = ParseReq
                    /\ ~InLog(call.log, FlagReadReq))
         /\ (call.arg.t = "string" /\ call.arg.v \in NullTexts)
                => (/\ call.kind = "throw" /\ call.val = NullJsonKernelObj
                    /\ call.log = <<ParseReq>>)
         /\ InLog(call.log, FlagReadReq)
                => (/\ call.arg # Null /\ call.arg # Undefined
                    /\ call.arg.t = "string" =>
                          (call.arg.v \in DecodableTexts /\ call.log[1] = ParseReq)
                    /\ call.log[Len(call.log)] = FlagReadReq)
         /\ call.val = MissingFlag => InLog(call.log, FlagReadReq)
         /\ JsonKernelObj \notin NullDescriptorErrors
         /\ MissingFlag \notin NullDescriptorErrors \cup {JsonKernelObj})

C10_Witness ==
    /\ call.op = "validateKernelObj"
    /\ call.arg = Str(T_null)
    /\ call.kind = "throw"
    /\ call.val = NullJsonKernelObj

\* what the JSON texts that validateKernelObj accepts stand for
DecodedObject(text) ==
    CASE text = T_flagTrue    -> Descriptor(Bool(TRUE), FALSE)
      [] text = T_flagTrueFoo -> Descriptor(Bool(TRUE), TRUE)
      [] text = T_flagTwice   -> Descriptor(Bool(TRUE), FALSE)
      [] text = T_flagOne     -> Descriptor(Num(1), FALSE)
      [] text = T_flagStrOne  -> Descriptor(Str(<<"1">>), FALSE)
      [] OTHER                -> Undefined

\* C11: a descriptor record whose isKernelObj is true comes back as it was
\* given, no field added, removed or changed; whenever validateKernelObj
\* returns, it returns the record it was given or, for a JSON text, the
\* object the text decodes to.
C11_ReturnsDescriptorUnchanged ==
    call.op = "validateKernelObj" =>
        (/\ (call.arg.t = "object" /\ GetProp(call.arg, C_isKernelObj) = Bool(TRUE))
                => (call.kind = "return" /\ call.val = call.arg)
         /\ (call.kind = "return" /\ call.arg.t = "object") => call.val = call.arg
         /\ (call.kind = "return" /\ call.arg.t = "string")
                => call.val = DecodedObject(call.arg.v)
         /\ call.kind = "return" => call.arg.t \in {"object", "string"})

\* {isKernelObj: true, foo: 1} given as JSON text
C11_Witness ==
    /\ call.op = "validateKernelObj"
    /\ call.arg = Str(T_flagTrueFoo)
    /\ call.kind = "return"
    /\ call.val = Descriptor(Bool(TRUE), TRUE)

-----------------------------------------------------------------------------
(* Properties of clone *)

Exited == cstate \in {"returned", "thrown"}

\* the objects of the graph that the argument reaches
InputObjects == Reach(input.graph, input.arg)

\* no object of the graph has an own property named like the marker
InputUnmarked == \A i \in InputObjects : ~HasOwn(input.graph, i, Marker)

\* every object of the graph is a plain record
InputRecords == \A i \in InputObjects : input.graph[i].kind = "Object"

\* no object of the graph reaches itself
InputAcyclic ==
    \A i \in InputObjects : i \notin ReachFrom(input.graph, RefsOf(input.graph, i))

\* a = {}; a.self = a
SelfLoopInput ==
    /\ input.arg = Ref(1)
    /\ input.graph[1] = PlainObject(<<Prop("self", Ref(1))>>)

IsNewObject(x) == IsRef(x) /\ x.v \notin 1..MaxObjects /\ x.v \in 1..Len(heap)

\* same keys in the same order, same primitive leaves, same nesting, to the
\* depth n
RECURSIVE DeepEqual(_, _, _, _)
DeepEqual(h, x, y, n) ==
    IF IsRef(x) /\ IsRef(y)
    THEN /\ n > 0
         /\ OwnKeys(h, x.v) = OwnKeys(h, y.v)
         /\ \A j \in 1..Len(h[x.v].props) :
                DeepEqual(h, h[x.v].props[j].v, h[y.v].props[j].v, n - 1)
    ELSE x = y

\* C5 as stated: for a = {} with a.self = a, clone(a) returns a new object r
\* whose property self is r itself.
C5_SelfReferenceIntoClone ==
    (cstate = "returned" /\ SelfLoopInput)
    => (/\ IsNewObject(result)
        /\ heap[result.v].props = <<Prop("self", result)>>)

\* C5 amended: for a = {} with a.self = a, clone(a) returns a new object r,
\* distinct from a, whose only property self is the original a: the back edge
\* leaves the clone and points at the source, and nothing is expanded further.
C5_SelfReferenceToOriginal ==
    (cstate = "returned" /\ SelfLoopInput)
    => (/\ IsNewObject(result)
        /\ result # input.arg
        /\ heap[result.v].props = <<Prop("self", input.arg)>>
        /\ Len(heap) = MaxObjects + 1)

C5_Witness == cstate = "returned" /\ SelfLoopInput /\ IsNewObject(result)

\* C6: when the outermost call of clone has exited, by return or by error, no
\* object of a graph that was free of the marker bears the marker.
C6_MarkerRemovedOnEveryExit ==
    (Exited /\ InputUnmarked)
    => \A i \in 1..MaxObjects : ~HasOwn(heap, i, Marker)

Recursing == { d \in 1..Len(stack) : stack[d].pc # "L227" }

\* C8 as stated, the depth: the calls of clone nested in one another are
\* never more than the objects of the graph.
C8_DepthAtMostObjects ==
    IsRef(input.arg) => Len(stack) <= Cardinality(InputObjects)

DepthBounded ==
    /\ Cardinality(Recursing) <= Cardinality(InputObjects)
    /\ Len(stack) <= Cardinality(InputObjects) + 1
    /\ \A d, e \in Recursing : d # e => stack[d].obj # stack[e].obj

\* a call on an object that bears the marker returns it in its next step
MarkedReturnsAtOnce ==
    (/\ cstate = "running"
     /\ Top.pc = "L227"
     /\ IsRef(Top.arg)
     /\ HasOwn(heap, Top.arg.v, Marker))
    => (/\ Len(stack') = Len(stack) - 1
        /\ Len(heap') = Len(heap)
        /\ IF stack' = <<>>
           THEN result' = Top.arg
           ELSE GetOwn(heap', stack[Len(stack')].temp, stack[Len(stack')].key) = Top.arg)

\* C8 amended: clone ends on every graph, with self-loops, cycles and shared
\* objects; a call on an object that bears the marker returns it at once; at
\* most one call per object is past line 227, so the nested calls are never
\* more than the objects of the graph plus one (the innermost, which returns
\* at once).
C8_TerminatesWithinDepth ==
    /\ []DepthBounded
    /\ [][MarkedReturnsAtOnce]_vars
    /\ <>Exited

\* a cycle through two objects, cloned to the end
C8_Witness ==
    /\ cstate = "returned"
    /\ \E i \in InputObjects :
          /\ i # 1
          /\ 1 \in RefsOf(input.graph, i)
          /\ i \in RefsOf(input.graph, 1)
    /\ InputRecords /\ InputUnmarked

\* the objects of the graph that bear the marker
Marked == { i \in 1..MaxObjects : HasOwn(heap, i, Marker) }

\* the objects a property of which an active call is cloning: the call has
\* set the marker (line 233) and has not yet deleted it (line 235)
BeingCloned ==
    { stack[d].obj : d \in { e \in 1..Len(stack) :
                                stack[e].pc \in {"L234", "L234 called", "L235"} } }

\* how many own properties of h[i] are named key
Count(h, i, key) == Cardinality({ j \in 1..Len(h[i].props) : h[i].props[j].k = key })

MarkedAreBeingCloned ==
    (InputUnmarked /\ cstate = "running") =>
        (/\ Marked = BeingCloned
         /\ \A i \in Marked : Count(heap, i, Marker) = 1)

\* a step of a nested call leaves the objects of the enclosing calls as they
\* are, their marker included
EnclosingMarkersKept ==
    (InputUnmarked /\ cstate = "running") =>
        \A d \in 1..(Len(stack) - 1) :
            /\ HasOwn(heap, stack[d].obj, Marker)
            /\ heap'[stack[d].obj] = heap[stack[d].obj]

\* C17: on a graph none of whose objects has an own property isActiveClone,
\* in every state where a call of clone is running the objects of the graph
\* that bear the marker are exactly those a property of which an active call
\* is cloning, each with one marker; a step of a nested call neither adds a
\* marker to nor removes the marker from an object of an enclosing call.
C17_MarkerMirrorsStack ==
    /\ []MarkedAreBeingCloned
    /\ [][EnclosingMarkersKept]_vars

\* two calls nested, each with its object marked
C17_Witness ==
    /\ InputUnmarked
    /\ cstate = "running"
    /\ Cardinality(BeingCloned) = 2
    /\ Marked = {1, 2}
    /\ Len(stack) = 3

\* C18: when clone has returned, every object of the graph has the own
\* properties it had before the call, in the same order and with the same
\* values, isActiveClone not among them unless it was there before; an
\* argument that is a primitive, null or undefined is returned as it is.
C18_InputIntactOnReturn ==
    cstate = "returned" =>
        (/\ \A i \in 1..MaxObjects : heap[i] = input.graph[i]
         /\ InputUnmarked => Marked = {}
         /\ ~IsRef(input.arg) => (result = input.arg /\ heap = input.graph))

\* a cycle through two objects, both with properties, cloned to the end
C18_Witness ==
    /\ cstate = "returned"
    /\ IsNewObject(result)
    /\ InputObjects = {1, 2}
    /\ 1 \in RefsOf(input.graph, 2)
    /\ heap[1] = input.graph[1]
    /\ heap[2] = input.graph[2]
    /\ Len(heap) > MaxObjects + 1

====
